---- MODULE Spec2Model ----
(***************************************************************************)
(* A model of xrk.py: the XRK session (class XRK), its channels (class     *)
(* XRKChannel and its two function-pointer swizzles) and the external AIM  *)
(* library (XRKDLL) they call.                                             *)
(*                                                                         *)
(* Numbers.  The library hands back C doubles.  A raw double r is held as  *)
(* the integer r * RawPerUnit (five decimals), a time in seconds after     *)
(* round(.., 4) as an integer number of ticks (1 tick = 1e-4 s), a channel *)
(* value as an integer, and a distance as ticks * value.  The raw values   *)
(* the model draws are never an exact decimal tie of a round(), whose      *)
(* outcome on a binary double depends on the double's representation.      *)
(***************************************************************************)
EXTENDS Integers, Sequences, FiniteSets, TLC

(***************************************************************************)
(* Bounds of the model.                                                    *)
(***************************************************************************)
MaxSamples == 3
MaxLap == 2
MaxChan == 2
MaxClose == 2

(***************************************************************************)
(* Program constants.                                                      *)
(***************************************************************************)
MsPerSecond == 1000
TimeDigits == 4
LapDigits == 3

RECURSIVE Pow10(_)
Pow10(n) == IF n = 0 THEN 1 ELSE 10 * Pow10(n - 1)

TicksPerSecond == Pow10(TimeDigits)
RawPerUnit == 10 * TicksPerSecond

\* Python's round(): to the nearest, a tie to the even neighbour.
RoundHalfEven(num, den) ==
    LET q == num \div den
        r == num % den
    IN  IF 2 * r < den THEN q
        ELSE IF 2 * r > den THEN q + 1
        ELSE IF q % 2 = 0 THEN q ELSE q + 1

\* round(r / divisor, digits) of the raw double r = raw / RawPerUnit, in ticks.
RoundTo(raw, digits, divisor) ==
    RoundHalfEven(raw, Pow10(TimeDigits + 1 - digits) * divisor)
        * Pow10(TimeDigits - digits)

(***************************************************************************)
(* Optional values: <<>> is Python's None (or a cached_property not yet    *)
(* computed), <<v>> is the value v.                                        *)
(***************************************************************************)
None == <<>>
Some(v) == <<v>>
IsNone(o) == Len(o) = 0
IsSome(o) == Len(o) = 1

\* `if lap:` -- None and 0 are both falsy.
Truthy(lap) == IsSome(lap) /\ lap[1] # 0

(***************************************************************************)
(* The three channel classes and the library entry points each binds.      *)
(***************************************************************************)
Families == <<"std", "gps", "raw">>

KindOf(fam) ==
    CASE fam = "std" -> "XRKChannel"
      [] fam = "gps" -> "XRKGPSChannel"
      [] fam = "raw" -> "XRKGPSrawChannel"

FamilyOf(kind) ==
    CASE kind = "XRKChannel" -> "std"
      [] kind = "XRKGPSChannel" -> "gps"
      [] kind = "XRKGPSrawChannel" -> "raw"

f_get_channel_samples_count(kind) ==
    CASE kind = "XRKChannel" -> "get_channel_samples_count"
      [] kind = "XRKGPSChannel" -> "get_GPS_channel_samples_count"
      [] kind = "XRKGPSrawChannel" -> "get_GPS_raw_channel_samples_count"

f_get_channel_samples(kind) ==
    CASE kind = "XRKChannel" -> "get_channel_samples"
      [] kind = "XRKGPSChannel" -> "get_GPS_channel_samples"
      [] kind = "XRKGPSrawChannel" -> "get_GPS_raw_channel_samples"

f_get_lap_channel_samples_count(kind) ==
    CASE kind = "XRKChannel" -> "get_lap_channel_samples_count"
      [] kind = "XRKGPSChannel" -> "get_lap_GPS_channel_samples_count"
      [] kind = "XRKGPSrawChannel" -> "get_lap_GPS_raw_channel_samples_count"

f_get_lap_channel_samples(kind) ==
    CASE kind = "XRKChannel" -> "get_lap_channel_samples"
      [] kind = "XRKGPSChannel" -> "get_lap_GPS_channel_samples"
      [] kind = "XRKGPSrawChannel" -> "get_lap_GPS_raw_channel_samples"

\* One call of a library entry point, as the call log keeps it.
Call(fn, lap) == [fn |-> fn, lap |-> lap]

(***************************************************************************)
(* The external source.  `file` is what the opened .xrk file holds, as the *)
(* library reports it through an open handle:                              *)
(*   names   the channel names of each family, by channel index;           *)
(*   speed   the whole-session samples of a channel named "GPS Speed";     *)
(*   other   the whole-session samples of every other channel;             *)
(*   lapser  the lap-scoped samples of every channel, by lap index;        *)
(*   laps    each lap's raw (start, duration);                             *)
(*   text    the text every metadata getter returns.                       *)
(* A samples reply is [count, ok, times, values]: what the count entry     *)
(* point returns, what the fetch entry point returns, and what the fetch   *)
(* writes into the caller's two buffers.                                   *)
(***************************************************************************)
VARIABLES
    file,          \* the external source's content (never changes)
    handleOpen,    \* the library's side of idxf: not yet released
    closeCalls,    \* how many times close_file_i was called
    staleUse,      \* a library call was issued with idxf after its release
    crashed,       \* the process died in the library (use of a stale handle)
    meta,          \* the cached metadata properties: name -> text
    lapcount,      \* cached_property lapcount
    lap_info,      \* cached_property lap_info
    channels,      \* cached_property channels
    timedistance,  \* cached_property timedistance
    builds,        \* how many times timedistance was computed successfully
    selfRef,       \* timetodistance was called while timedistance was computed
    bySpeed,       \* timedistance was computed for a distance-coordinate
                   \* samples() of the GPS Speed channel itself
    ret            \* what the last operation returned or raised

vars == <<file, handleOpen, closeCalls, staleUse, crashed, meta, lapcount,
          lap_info, channels, timedistance, builds, selfRef, bySpeed, ret>>

Names == {"GPS Speed", "RPM", "Lat"}
SpeedName == "GPS Speed"

Series(count, ok, times, values) ==
    [count |-> count, ok |-> ok, times |-> times, values |-> values]

\* What the library answers through a handle it no longer knows: nothing.
NoSeries == Series(0, 0, <<>>, <<>>)

BrokenFile ==
    [names |-> [std |-> <<>>, gps |-> <<>>, raw |-> <<>>],
     speed |-> NoSeries, other |-> NoSeries,
     lapser |-> <<>>, laps |-> <<>>, text |-> None]

\* XRKDLL.get_*_channels_count and get_*_channel_name
get_channels_count(f, fam) == Len(f.names[fam])
get_channel_name(f, fam, i) == f.names[fam][i + 1]

\* XRKDLL.get_*_channel_samples_count / get_*_channel_samples
WholeReply(f, fam, idxc) ==
    IF idxc < Len(f.names[fam])
    THEN IF f.names[fam][idxc + 1] = SpeedName THEN f.speed ELSE f.other
    ELSE NoSeries

\* XRKDLL.get_lap_*_channel_samples_count / get_lap_*_channel_samples
LapReply(f, fam, idxc, lap) ==
    IF idxc < Len(f.names[fam]) /\ lap >= 0 /\ lap < Len(f.lapser)
    THEN f.lapser[lap + 1]
    ELSE NoSeries

\* XRKDLL.get_laps_count
get_laps_count(f) == Len(f.laps)

\* XRKDLL.get_lap_info: writes (start, duration) through the two pointers; a
\* lap the library does not know leaves them as they were.
get_lap_info(f, i, prev) == IF i < Len(f.laps) THEN f.laps[i + 1] ELSE prev

(***************************************************************************)
(* XRK.channels: the three families in turn, into one dict by name.        *)
(***************************************************************************)
Channel(name, kind, idxc) == [name |-> name, kind |-> kind, idxc |-> idxc]

\* The assertion left out: a later channel replaces an earlier one of its name.
NameNotChecked(name, map) == TRUE

\* `assert(name not in channels)`
NameIsFree(name, map) == name \notin DOMAIN map

RECURSIVE EnumFamily(_, _, _, _)
EnumFamily(f, fam, i, acc) ==
    IF ~acc.ok \/ i >= get_channels_count(f, fam) THEN acc
    ELSE LET name == get_channel_name(f, fam, i)
         IN  IF ~NameIsFree(name, acc.map)
             THEN [ok |-> FALSE, map |-> acc.map]
             ELSE EnumFamily(f, fam, i + 1,
                    [ok |-> TRUE,
                     map |-> (name :> Channel(name, KindOf(fam), i)) @@ acc.map])

Enumerate(f) ==
    LET a0 == [ok |-> TRUE, map |-> <<>>]
        a1 == EnumFamily(f, Families[1], 0, a0)
        a2 == EnumFamily(f, Families[2], 0, a1)
        a3 == EnumFamily(f, Families[3], 0, a2)
    IN  a3

(***************************************************************************)
(* XRK.timetodistance on a computed table (seconds, distance).             *)
(***************************************************************************)
\* bisect.bisect_left(a, x): 0-based insert position.
RECURSIVE BisectLeft(_, _, _, _)
BisectLeft(a, x, lo, hi) ==
    IF lo < hi
    THEN LET mid == (lo + hi) \div 2
         IN  IF a[mid + 1] < x THEN BisectLeft(a, x, mid + 1, hi)
             ELSE BisectLeft(a, x, lo, mid)
    ELSE lo

\* bisect_right in bisect_left's place: past the entries equal to x.
bisect_right(a, x) == BisectLeft(a, x + 1, 0, Len(a))

bisect_left(a, x) == BisectLeft(a, x, 0, Len(a))

\* The body of timetodistance once self.timedistance is there: a list index
\* past the end raises IndexError.
TableAt(table, itime, idx) ==
    IF idx >= Len(table.seconds)
    THEN [status |-> "IndexError", value |-> 0, warned |-> FALSE, idx |-> idx]
    ELSE [status |-> "ok",
          value |-> table.distance[idx + 1],
          warned |-> table.seconds[idx + 1] # itime,
          idx |-> idx]

TableLookup(table, itime) == TableAt(table, itime, bisect_left(table.seconds, itime))

\* What self.timedistance is to a caller of timetodistance: the table, the
\* exception its computation raised, or the computation itself, still running.
TdReady(table) == [state |-> "ready", table |-> table, err |-> "ok"]
TdError(err) == [state |-> "error", table |-> <<>>, err |-> err]
TdBuilding == [state |-> "building", table |-> <<>>, err |-> "RecursionError"]

timetodistance(td, itime) ==
    IF td.state = "ready" THEN TableLookup(td.table, itime)
    ELSE [status |-> td.err, value |-> 0, warned |-> FALSE, idx |-> 0]

(***************************************************************************)
(* XRK.lap_info: one get_lap_info per lap of self.lapcount, each rounded   *)
(* to LapDigits decimals; pstart and pduration start at 0.                 *)
(***************************************************************************)
RoundLap(raw) == RoundTo(raw, LapDigits, 1)

LapRow(got) == <<RoundLap(got[1]), RoundLap(got[2])>>

RECURSIVE LapInfoLoop(_, _, _, _, _)
LapInfoLoop(f, n, i, prev, data) ==
    IF i >= n THEN data
    ELSE LapInfoLoop(f, n, i + 1, get_lap_info(f, i, prev),
                     Append(data, LapRow(get_lap_info(f, i, prev))))

LapInfoList(f, n) == LapInfoLoop(f, n, 0, <<0, 0>>, <<>>)

(***************************************************************************)
(* XRKChannel.samples, in the order of its code: the count, the fetch, the *)
(* loop over the samples, the shift to the lap's start.  td is what        *)
(* self.xrk.timedistance is to this call and li what self.xrk.lap_info is; *)
(* the caller caches whichever the call read (usedTD, usedLapInfo).        *)
(***************************************************************************)
\* `ptime = round(ptimes[i]/1000.0, 4)` and `ptime = round(ptimes[i], 4)`
NormWhole(raw) == RoundTo(raw, TimeDigits, MsPerSecond)
NormLap(raw) == RoundTo(raw, TimeDigits, 1)

\* `if lap:` at lines 88 and 98, `if not lap:` at line 117, `and lap` at line 129
LapScoped(lap) == Truthy(lap)

\* The lap index handed to the library (read only when a lap was given).
LapIndex(lap) == IF IsSome(lap) THEN lap[1] ELSE 0

NoSamples ==
    [status |-> "ok", cntWhole |-> None, cntLap |-> None, fetched |-> "none",
     fetchLap |-> None, raw |-> <<>>, norm |-> <<>>, xs |-> <<>>, ys |-> <<>>,
     calls |-> <<>>, usedTD |-> FALSE, usedLapInfo |-> FALSE, offset |-> 0]

\* The first status that is not "ok" among the lookups, in list order.
RECURSIVE FirstBad(_, _)
FirstBad(looks, i) ==
    IF i > Len(looks) THEN "ok"
    ELSE IF looks[i].status # "ok" THEN looks[i].status
    ELSE FirstBad(looks, i + 1)

\* lines 128-138: xvalues made relative to the lap's start, and the return
Shifted(r, xvalues, pvalues, lap_start) ==
    [r EXCEPT !.xs = [i \in 1..Len(xvalues) |-> xvalues[i] - lap_start],
              !.ys = pvalues,
              !.offset = lap_start]

StartLooked(r, xtime, xvalues, pvalues, start, look) ==
    IF ~xtime /\ look.status # "ok" THEN [r EXCEPT !.status = look.status]
    ELSE Shifted(r, xvalues, pvalues, IF ~xtime THEN look.value ELSE start)

Returned(r, lap, xtime, relative, td, li, xvalues, pvalues) ==
    IF ~relative THEN [r EXCEPT !.xs = xvalues, !.ys = pvalues]
    ELSE IF LapIndex(lap) >= Len(li)
    THEN [r EXCEPT !.usedLapInfo = TRUE, !.status = "IndexError"]
    ELSE StartLooked([r EXCEPT !.usedLapInfo = TRUE], xtime, xvalues, pvalues,
                     li[LapIndex(lap) + 1][1],
                     timetodistance(td, li[LapIndex(lap) + 1][1]))

\* lines 110-126: the loop over the samples
Converted(r, lap, xtime, relative, td, li, norm, pvalues, looks, bad) ==
    IF ~xtime /\ bad # "ok" THEN [r EXCEPT !.status = bad]
    ELSE Returned(r, lap, xtime, relative, td, li,
                  [i \in 1..Len(norm) |-> IF ~xtime THEN looks[i].value ELSE norm[i]],
                  pvalues)

Looked(r, lap, xtime, relative, td, li, norm, pvalues, looks) ==
    Converted(r, lap, xtime, relative, td, li, norm, pvalues, looks,
              FirstBad(looks, 1))

Looped(r, lap, xtime, relative, td, li, scoped, ptimes, pvalues, norm) ==
    Looked([r EXCEPT !.raw = ptimes, !.norm = norm, !.usedTD = ~xtime],
           lap, xtime, relative, td, li, norm, pvalues,
           [i \in 1..Len(norm) |-> timetodistance(td, norm[i])])

\* lines 94-108: the two buffers of sample_count doubles, and the fetch
Fetched(r, ch, lap, xtime, xabsolute, td, li, scoped, reply, sample_count) ==
    IF ~(reply.ok > 0)
    THEN [r EXCEPT !.status = "AssertionError: get_channel_samples"]
    ELSE Looped(r, lap, xtime, ~xabsolute /\ scoped, td, li, scoped,
                [i \in 1..sample_count |-> reply.times[i]],
                [i \in 1..sample_count |-> reply.values[i]],
                [i \in 1..sample_count |->
                    IF ~scoped THEN NormWhole(reply.times[i])
                    ELSE NormLap(reply.times[i])])

FetchCall(ch, lap, scoped) ==
    IF scoped THEN Call(f_get_lap_channel_samples(ch.kind), lap)
    ELSE Call(f_get_channel_samples(ch.kind), None)

\* lines 87-92: the sample count
Counted(r, ch, lap, xtime, xabsolute, td, li, scoped, reply, sample_count) ==
    IF ~(sample_count > 0)
    THEN [r EXCEPT !.status = "AssertionError: samples_count"]
    ELSE Fetched([r EXCEPT !.calls = Append(r.calls, FetchCall(ch, lap, scoped)),
                           !.fetched = IF scoped THEN "lap" ELSE "whole",
                           !.fetchLap = IF scoped THEN lap ELSE None],
                 ch, lap, xtime, xabsolute, td, li, scoped, reply, sample_count)

CountCalls(ch, lap, scoped) ==
    IF scoped
    THEN <<Call(f_get_channel_samples_count(ch.kind), None),
           Call(f_get_lap_channel_samples_count(ch.kind), lap)>>
    ELSE <<Call(f_get_channel_samples_count(ch.kind), None)>>

Replied(ch, lap, xtime, xabsolute, td, li, scoped, whole, perlap) ==
    Counted([NoSamples EXCEPT !.cntWhole = Some(whole.count),
                              !.cntLap = IF scoped THEN Some(perlap.count) ELSE None,
                              !.calls = CountCalls(ch, lap, scoped)],
            ch, lap, xtime, xabsolute, td, li, scoped,
            IF scoped THEN perlap ELSE whole,
            IF scoped THEN perlap.count ELSE whole.count)

SamplesCore(f, ch, lap, xtime, xabsolute, td, li) ==
    Replied(ch, lap, xtime, xabsolute, td, li, LapScoped(lap),
            WholeReply(f, FamilyOf(ch.kind), ch.idxc),
            LapReply(f, FamilyOf(ch.kind), ch.idxc, LapIndex(lap)))

(***************************************************************************)
(* XRK.timedistance: the table (seconds, distance) from the whole-session  *)
(* samples of channels['GPS Speed'].                                       *)
(***************************************************************************)
\* list.insert(i, x)
ListInsert(list, i, x) ==
    IF i >= Len(list) THEN Append(list, x)
    ELSE SubSeq(list, 1, i) \o <<x>> \o SubSeq(list, i + 1, Len(list))

\* The leading sample's speed, speeds[i-1], in speeds[i]'s place.
TravelledLeading(seconds, speeds, i, totdistance) ==
    totdistance + (seconds[i + 1] - seconds[i]) * speeds[i]

\* timedelta taken backwards: seconds[i-1] - seconds[i].
TravelledBackwards(seconds, speeds, i, totdistance) ==
    totdistance + (seconds[i] - seconds[i + 1]) * speeds[i + 1]

\* `totdistance + traveled`, traveled = timedelta * speeds[i]
Travelled(seconds, speeds, i, totdistance) ==
    totdistance + (seconds[i + 1] - seconds[i]) * speeds[i + 1]

RECURSIVE Integrate(_, _, _, _, _)
Integrate(seconds, speeds, i, totdistance, distance) ==
    IF i >= Len(seconds) THEN distance
    ELSE Integrate(seconds, speeds, i + 1,
                   Travelled(seconds, speeds, i, totdistance),
                   ListInsert(distance, i, Travelled(seconds, speeds, i, totdistance)))

\* `.samples(xabsolute=True, xtime=True)`
\* The table's samples asked for in distance coordinates.
BuildInDistance == FALSE

BuildXabsolute == TRUE
BuildXtime == TRUE

Integrated(base, s) ==
    IF s.status # "ok" THEN [base EXCEPT !.status = s.status, !.selfRef = s.usedTD]
    ELSE IF Len(s.xs) # Len(s.ys)
    THEN [base EXCEPT !.status = "AssertionError: paranoia", !.selfRef = s.usedTD]
    ELSE [base EXCEPT
            !.table = [seconds |-> s.xs,
                       distance |-> Integrate(s.xs, s.ys, 1, 0, <<0>>)],
            !.selfRef = s.usedTD]

Enumerated(f, en, base) ==
    IF ~en.ok THEN [base EXCEPT !.status = "AssertionError: collision"]
    ELSE IF SpeedName \notin DOMAIN en.map
    THEN [base EXCEPT !.status = "KeyError", !.chans = Some(en.map)]
    ELSE Integrated([base EXCEPT !.chans = Some(en.map)],
                    SamplesCore(f, en.map[SpeedName], None, BuildXtime,
                                BuildXabsolute, TdBuilding, <<>>))

\* chans is self.channels as this access finds it (None: not yet computed).
\* The result names what self.channels is afterwards.
Build(f, chans) ==
    Enumerated(f,
               IF IsSome(chans) THEN [ok |-> TRUE, map |-> chans[1]] ELSE Enumerate(f),
               [status |-> "ok", table |-> <<>>, chans |-> None, selfRef |-> FALSE])

(***************************************************************************)
(* The session.  Every operation below is one method or property of XRK or *)
(* XRKChannel, run to its return or its exception.  A library call made    *)
(* with idxf after close_file_i released it is undefined in the library:   *)
(* it answers as if the handle were open, it answers nothing, or the       *)
(* process dies in it.                                                     *)
(***************************************************************************)
MetaProps == {"vehicle_name", "track_name", "racer_name", "championship_name",
              "venue_type", "datetime"}

Outcomes == IF handleOpen THEN {"answers"} ELSE {"answers", "fails", "crashes"}

View(o) == IF o = "answers" THEN file ELSE BrokenFile

Dies(reaches, o) == reaches /\ o = "crashes"

Died(op) ==
    /\ crashed' = TRUE
    /\ staleUse' = TRUE
    /\ ret' = [op |-> "crash", during |-> op]
    /\ UNCHANGED <<file, handleOpen, closeCalls, meta, lapcount, lap_info,
                   channels, timedistance, builds, selfRef, bySpeed>>

Stale(reaches) == staleUse \/ (reaches /\ ~handleOpen)

\* functools.cached_property: the value computed is stored on the instance; a
\* computation that raised stores nothing.
Cached(old, ok, value) == IF IsSome(old) THEN old ELSE IF ok THEN Some(value) ELSE None

\* XRK.close
Close ==
    /\ ~crashed
    /\ closeCalls < MaxClose
    /\ \E o \in Outcomes :
         IF Dies(TRUE, o) THEN Died("close")
         ELSE /\ handleOpen' = FALSE
              /\ closeCalls' = closeCalls + 1
              /\ staleUse' = Stale(TRUE)
              /\ ret' = [op |-> "close", res |-> (o = "answers")]
              /\ UNCHANGED <<file, crashed, meta, lapcount, lap_info, channels,
                             timedistance, builds, selfRef, bySpeed>>

\* XRK.vehicle_name, track_name, racer_name, championship_name, venue_type and
\* datetime: a getter's text, decoded (datetime: converted) and cached.  The
\* conversions themselves are not modelled: the text is kept as it is.
MetaRead(p, o, got) ==
    IF Dies(IsNone(meta[p]), o) THEN Died(p)
    ELSE /\ meta' = [meta EXCEPT ![p] = Cached(meta[p], IsSome(got), got[1])]
         /\ staleUse' = Stale(IsNone(meta[p]))
         /\ ret' = [op |-> p, res |-> meta'[p]]
         /\ UNCHANGED <<file, handleOpen, closeCalls, crashed, lapcount,
                        lap_info, channels, timedistance, builds, selfRef, bySpeed>>

ReadMeta(p) ==
    /\ ~crashed
    /\ \E o \in Outcomes : MetaRead(p, o, View(o).text)

\* XRK.lapcount
LapCount ==
    /\ ~crashed
    /\ \E o \in Outcomes :
         IF Dies(IsNone(lapcount), o) THEN Died("lapcount")
         ELSE /\ lapcount' = Cached(lapcount, TRUE, get_laps_count(View(o)))
              /\ staleUse' = Stale(IsNone(lapcount))
              /\ ret' = [op |-> "lapcount", res |-> lapcount'[1]]
              /\ UNCHANGED <<file, handleOpen, closeCalls, crashed, meta,
                             lap_info, channels, timedistance, builds, selfRef, bySpeed>>

\* self.lapcount as lap_info reads it, and the list lap_info computes.
LapCountSeen(f) == IF IsSome(lapcount) THEN lapcount[1] ELSE get_laps_count(f)
LapInfoSeen(f) ==
    IF IsSome(lap_info) THEN lap_info[1] ELSE LapInfoList(f, LapCountSeen(f))
LapInfoReaches == IsNone(lap_info) /\ (IsNone(lapcount) \/ lapcount[1] > 0)

\* The session after an access to self.lap_info that found or computed li.
LapInfoAccessed(f, li) ==
    /\ lap_info' = Some(li)
    /\ lapcount' = IF IsSome(lap_info) THEN lapcount ELSE Some(LapCountSeen(f))

\* XRK.lap_info
LapInfo ==
    /\ ~crashed
    /\ \E o \in Outcomes :
         IF Dies(LapInfoReaches, o) THEN Died("lap_info")
         ELSE /\ LapInfoAccessed(View(o), LapInfoSeen(View(o)))
              /\ staleUse' = Stale(LapInfoReaches)
              /\ ret' = [op |-> "lap_info", res |-> lap_info'[1]]
              /\ UNCHANGED <<file, handleOpen, closeCalls, crashed, meta,
                             channels, timedistance, builds, selfRef, bySpeed>>

\* XRK.channels
ChannelsRead(o, en) ==
    IF Dies(IsNone(channels), o) THEN Died("channels")
    ELSE /\ channels' = Cached(channels, en.ok, en.map)
         /\ staleUse' = Stale(IsNone(channels))
         /\ ret' = [op |-> "channels",
                    status |-> IF IsSome(channels') THEN "ok"
                               ELSE "AssertionError: collision",
                    res |-> channels']
         /\ UNCHANGED <<file, handleOpen, closeCalls, crashed, meta,
                        lapcount, lap_info, timedistance, builds, selfRef, bySpeed>>

Channels ==
    /\ ~crashed
    /\ \E o \in Outcomes : ChannelsRead(o, Enumerate(View(o)))

\* Whether computing timedistance calls the library: not when self.channels
\* is there and holds no 'GPS Speed' (KeyError comes first).
BuildReaches ==
    IsNone(timedistance) /\ (IsNone(channels) \/ SpeedName \in DOMAIN channels[1])

\* self.timedistance as an access finds it or computes it.
TdSeen(b) ==
    IF IsSome(timedistance) THEN TdReady(timedistance[1])
    ELSE IF b.status = "ok" THEN TdReady(b.table) ELSE TdError(b.status)

\* The session after an access to self.timedistance that computed b.
TdAccessed(b, forSpeed) ==
    /\ timedistance' = Cached(timedistance, b.status = "ok", b.table)
    /\ bySpeed' = (bySpeed \/ (IsNone(timedistance) /\ b.status = "ok" /\ forSpeed))
    /\ channels' = IF IsSome(timedistance) THEN channels ELSE b.chans
    /\ builds' = IF IsNone(timedistance) /\ b.status = "ok" THEN builds + 1 ELSE builds
    /\ selfRef' = (selfRef \/ (IsNone(timedistance) /\ b.selfRef))

\* XRK.timedistance
TimeDistanceRead(o, b) ==
    IF Dies(BuildReaches, o) THEN Died("timedistance")
    ELSE /\ TdAccessed(b, FALSE)
         /\ staleUse' = Stale(BuildReaches)
         /\ ret' = [op |-> "timedistance", status |-> TdSeen(b).err,
                    res |-> timedistance']
         /\ UNCHANGED <<file, handleOpen, closeCalls, crashed, meta,
                        lapcount, lap_info>>

TimeDistance ==
    /\ ~crashed
    /\ \E o \in Outcomes : TimeDistanceRead(o, Build(View(o), channels))

\* XRK.timetodistance
TimeToDistanceCall(itime, o, b) ==
    IF Dies(BuildReaches, o) THEN Died("timetodistance")
    ELSE /\ TdAccessed(b, FALSE)
         /\ staleUse' = Stale(BuildReaches)
         /\ ret' = [op |-> "timetodistance", itime |-> itime,
                    res |-> timetodistance(TdSeen(b), itime)]
         /\ UNCHANGED <<file, handleOpen, closeCalls, crashed, meta,
                        lapcount, lap_info>>

TimeToDistance(itime) ==
    /\ ~crashed
    /\ \E o \in Outcomes : TimeToDistanceCall(itime, o, Build(View(o), channels))

\* XRKChannel.samples, on a channel object of self.channels
SamplesDone(name, lap, xtime, xabsolute, f, b, li, r) ==
    /\ IF r.usedTD THEN TdAccessed(b, name = SpeedName)
       ELSE UNCHANGED <<timedistance, channels, builds, selfRef, bySpeed>>
    /\ IF r.usedLapInfo THEN LapInfoAccessed(f, li)
       ELSE UNCHANGED <<lap_info, lapcount>>
    /\ staleUse' = Stale(TRUE)
    /\ ret' = [op |-> "samples", name |-> name,
               kind |-> channels[1][name].kind, lap |-> lap,
               xtime |-> xtime, xabsolute |-> xabsolute, res |-> r]
    /\ UNCHANGED <<file, handleOpen, closeCalls, crashed, meta>>

SamplesCall(name, lap, xtime, xabsolute, f, b, li) ==
    SamplesDone(name, lap, xtime, xabsolute, f, b, li,
                SamplesCore(f, channels[1][name], lap, xtime, xabsolute,
                            TdSeen(b), li))

Samples(name, lap, xtime, xabsolute) ==
    /\ ~crashed
    /\ IsSome(channels)
    /\ name \in DOMAIN channels[1]
    /\ \E o \in Outcomes :
         IF Dies(TRUE, o) THEN Died("samples")
         ELSE SamplesCall(name, lap, xtime, xabsolute, View(o),
                          Build(View(o), channels), LapInfoSeen(View(o)))

\* The lap arguments drawn: None, and each lap index of the file (0-based).
LapArgs == {None} \cup {Some(k) : k \in 0..(Len(file.laps) - 1)}

\* The times timetodistance is asked about, in ticks.
Queries == {0, 5000, 10000, 20000, 30000}

NextOpen ==
    \/ LapCount
    \/ LapInfo
    \/ Channels
    \/ TimeDistance
    \/ \E t \in Queries : TimeToDistance(t)
    \/ \E name \in Names, lap \in LapArgs, xtime \in BOOLEAN, xabsolute \in BOOLEAN :
         Samples(name, lap, xtime, xabsolute)

\* The two operations that enumerate the channels.
NextEnum ==
    \/ Channels
    \/ TimeDistance

Next ==
    \/ NextOpen
    \/ Close
    \/ \E p \in MetaProps : ReadMeta(p)

(***************************************************************************)
(* The files the model opens.  Timestamps are non-decreasing, as a logger  *)
(* records them; raw whole-session times are milliseconds, raw lap-scoped  *)
(* times and lap starts are seconds, each times RawPerUnit.                *)
(***************************************************************************)
File(names, speed, other, lapser, laps) ==
    [names |-> names, speed |-> speed, other |-> other, lapser |-> lapser,
     laps |-> laps, text |-> Some("text")]

SortedSeqs(S, n) ==
    {q \in [1..n -> S] : \A i \in 1..(n - 1) : q[i] <= q[i + 1]}

GoodSeries(T, V, n) ==
    {Series(n, 1, t, v) : t \in SortedSeqs(T, n), v \in [1..n -> V]}

UpTo(T, V, n) == UNION {GoodSeries(T, V, k) : k \in 1..n}

\* A count or a fetch that reports failure: the buffers stay zeroed.
BadSeries ==
    {Series(0, 0, <<>>, <<>>), Series(-1, 0, <<>>, <<>>),
     Series(1, 0, <<0>>, <<0>>), Series(1, -1, <<0>>, <<0>>)}

Ms(n) == n * RawPerUnit
WholeTimes == {Ms(0), Ms(1000), Ms(2000)}
Speeds == {-10, 20}

\* 1 s; 1500.04 ms, which rounds to 1.5 s; 3 s, past the table of PlainSpeed
OtherTimes == {Ms(1000), Ms(1500) + 4000, Ms(3000)}
\* the same three times as a lap-scoped fetch reports them, in seconds
LapTimes == {RawPerUnit, RawPerUnit + 50004, 3 * RawPerUnit}
Values == {7}
\* lap k (0-based) starts at (k + 1) * 1.0004 s, which round(.., 3) takes to
\* 1.0 s, 2.001 s, 3.001 s, ..., and lasts a minute
LapStart(k) == (k + 1) * (RawPerUnit + 40)
LapDuration == 60 * RawPerUnit

PlainNames == [std |-> <<"RPM">>, gps |-> <<SpeedName>>, raw |-> <<>>]
SwappedNames == [std |-> <<SpeedName>>, gps |-> <<>>, raw |-> <<"Lat">>]
PlainSpeed == Series(3, 1, <<Ms(0), Ms(1000), Ms(2000)>>, <<0, 10, 20>>)
PlainOther == Series(1, 1, <<Ms(1000)>>, <<7>>)
PlainLapSeries == Series(1, 1, <<RawPerUnit>>, <<7>>)
PlainLap == <<RawPerUnit, LapDuration>>

LapLists == {[i \in 1..n |-> <<LapStart(i - 1), LapDuration>>] : n \in 1..MaxLap}

\* The table: every GPS Speed series of up to MaxSamples samples.
FilesTable ==
    {File(PlainNames, sp, PlainOther, <<PlainLapSeries>>, <<PlainLap>>)
       : sp \in UpTo(WholeTimes, Speeds, MaxSamples) \cup {PlainSpeed}}

\* samples(): every whole-session reply of a channel, and every lap-scoped one.
FilesWhole ==
    {File(nm, sp, ot, <<PlainLapSeries>>, <<PlainLap>>)
       : nm \in {PlainNames, SwappedNames},
         sp \in {PlainSpeed, NoSeries},
         ot \in BadSeries \cup UpTo(OtherTimes, Values, MaxSamples - 1)}

FilesLap ==
    {File(PlainNames, PlainSpeed, ot, [i \in 1..Len(laps) |-> ls], laps)
       : ot \in {PlainOther, NoSeries},
         ls \in BadSeries \cup UpTo(LapTimes, Values, MaxSamples - 1),
         laps \in LapLists}

FilesSamples == FilesWhole \cup FilesLap

\* Channel enumeration: every naming of up to MaxChan channels per family.
NameLists == UNION {[1..n -> Names] : n \in 0..MaxChan}

FilesEnum ==
    {File([std |-> a, gps |-> b, raw |-> c], PlainSpeed, PlainOther,
          <<PlainLapSeries>>, <<PlainLap>>)
       : a \in NameLists, b \in NameLists, c \in NameLists}

\* The life of one session, close included.
FilesLife ==
    {File(PlainNames, PlainSpeed, PlainOther, <<PlainLapSeries>>, <<PlainLap>>)}

\* XRK.__init__ returned: open_file gave idxf > 0, nothing is cached yet.
Constructed ==
    /\ handleOpen = TRUE
    /\ closeCalls = 0
    /\ staleUse = FALSE
    /\ crashed = FALSE
    /\ meta = [p \in MetaProps |-> None]
    /\ lapcount = None
    /\ lap_info = None
    /\ channels = None
    /\ timedistance = None
    /\ builds = 0
    /\ selfRef = FALSE
    /\ bySpeed = FALSE
    /\ ret = [op |-> "__init__"]

Init == file \in FilesLife /\ Constructed
InitTable == file \in FilesTable /\ Constructed
InitSamples == file \in FilesSamples /\ Constructed
InitEnum == file \in FilesEnum /\ Constructed

Spec == Init /\ [][Next]_vars
SpecTable == InitTable /\ [][NextOpen]_vars
SpecSamples == InitSamples /\ [][NextOpen]_vars
SpecEnum == InitEnum /\ [][NextEnum]_vars


(***************************************************************************)
(* The claims.                                                             *)
(***************************************************************************)
Last(q) == q[Len(q)]
NonDecreasing(q) == \A i \in 1..(Len(q) - 1) : q[i] <= q[i + 1]
Table == timedistance[1]
AskedTable == ret.op = "timetodistance" /\ IsSome(timedistance)

\* C1: on a built table, timetodistance(t) for a t greater than the last table
\* time returns the last entry's distance and does not fail.
C1_BeyondLastReturnsLast ==
    (AskedTable /\ ret.itime > Last(Table.seconds))
        => (ret.res.status = "ok" /\ ret.res.value = Last(Table.distance))

\* C2: on a built table, timetodistance(t) for a t not greater than the last
\* table time returns the distance at the leftmost index whose time is >= t: the
\* distance of every entry whose time equals t, and, when none equals t, still a
\* distance, with a warning and no failure.
C2_LeftmostNotBefore ==
    (AskedTable /\ ret.itime <= Last(Table.seconds))
        => /\ ret.res.status = "ok"
           /\ \E j \in 1..Len(Table.seconds) :
                /\ Table.seconds[j] >= ret.itime
                /\ \A k \in 1..(j - 1) : Table.seconds[k] < ret.itime
                /\ ret.res.value = Table.distance[j]
                /\ ret.res.warned = (Table.seconds[j] # ret.itime)
           /\ \A i \in 1..Len(Table.seconds) :
                Table.seconds[i] = ret.itime => ret.res.value = Table.distance[i]

\* C2's case: an inexact lookup that lands inside the table, past entries before t.
C2_Witness ==
    /\ AskedTable
    /\ ret.itime <= Last(Table.seconds)
    /\ ret.res.status = "ok"
    /\ ret.res.warned
    /\ ret.res.idx > 0
    /\ \E i, k \in 1..Len(Table.seconds) : i # k /\ Table.seconds[i] = Table.seconds[k]

\* C3: the table built from the GPS Speed series (t, speed) of n >= 1 samples has
\* n entries in both columns, its time column is t, distance[0] = 0 and
\* distance[i] = distance[i-1] + (t[i] - t[i-1]) * speed[i]; times [0,1,2] s with
\* speeds [0,10,20] give distances [0,10,30].
C3_TableIsIntegral ==
    IsSome(timedistance)
        => LET n == file.speed.count
               t == [i \in 1..n |-> NormWhole(file.speed.times[i])]
               speed == file.speed.values
           IN  /\ n >= 1
               /\ Len(Table.seconds) = n
               /\ Len(Table.distance) = n
               /\ \A i \in 1..n : Table.seconds[i] = t[i]
               /\ Table.distance[1] = 0
               /\ \A i \in 2..n :
                    Table.distance[i]
                        = Table.distance[i - 1] + (t[i] - t[i - 1]) * speed[i]
               /\ (file.speed = PlainSpeed
                     => /\ Table.seconds = <<0, TicksPerSecond, 2 * TicksPerSecond>>
                        /\ Table.distance
                             = <<0, 10 * TicksPerSecond, 30 * TicksPerSecond>>)

\* C3's case: the table of the example is built.
C3_Witness ==
    /\ IsSome(timedistance)
    /\ file.speed = PlainSpeed
    /\ Table.distance = <<0, 100000, 300000>>

\* C4: when the GPS Speed series has non-decreasing timestamps and non-negative
\* speeds, the table's distance column and its time column are non-decreasing.
C4_TableIsMonotone ==
    (/\ IsSome(timedistance)
     /\ NonDecreasing(file.speed.times)
     /\ \A i \in 1..file.speed.count : file.speed.values[i] >= 0)
        => (NonDecreasing(Table.distance) /\ NonDecreasing(Table.seconds))

\* C4's case: a table of three entries from non-negative speeds, the distance
\* growing at each.
C4_Witness ==
    /\ IsSome(timedistance)
    /\ \A i \in 1..file.speed.count : file.speed.values[i] >= 0
    /\ Len(Table.distance) = 3
    /\ Table.distance[1] < Table.distance[2]
    /\ Table.distance[2] < Table.distance[3]

\* The channels the library enumerates, family by family.
Slots == {<<fam, i>> \in {"std", "gps", "raw"} \X (0..(MaxChan + 1)) :
            i < Len(file.names[fam])}
SlotName(sl) == file.names[sl[1]][sl[2] + 1]
NameShared == \E a, b \in Slots : a # b /\ SlotName(a) = SlotName(b)

\* C5: enumeration over the three families fails whenever two enumerated channels
\* share a name, and then there is no channel map; when it succeeds the map holds
\* every enumerated channel exactly once, under its own name, bound to the kind
\* of its family.
C5_EnumerationRejectsSharedNames ==
    /\ (ret.op = "channels" /\ NameShared)
          => (ret.status # "ok" /\ IsNone(ret.res) /\ IsNone(channels))
    /\ IsSome(channels)
          => /\ ~NameShared
             /\ DOMAIN channels[1] = {SlotName(sl) : sl \in Slots}
             /\ Cardinality(DOMAIN channels[1]) = Cardinality(Slots)
             /\ \A sl \in Slots :
                  channels[1][SlotName(sl)]
                      = [name |-> SlotName(sl), kind |-> KindOf(sl[1]), idxc |-> sl[2]]
    /\ (ret.op = "channels" /\ ~NameShared) => (ret.status = "ok" /\ IsSome(channels))

\* C5's case: a successful enumeration with a channel of each family.
C5_Witness ==
    /\ ret.op = "channels"
    /\ ret.status = "ok"
    /\ \A fam \in {"std", "gps", "raw"} : Len(file.names[fam]) = 1
    /\ Cardinality(DOMAIN channels[1]) = 3

\* The replies of the library for the scope a samples() request names.
AskedSamples == ret.op = "samples"
AskedChannel == Channel(ret.name, ret.kind, channels[1][ret.name].idxc)
AskedWhole == WholeReply(file, FamilyOf(ret.kind), AskedChannel.idxc)
AskedLap == LapReply(file, FamilyOf(ret.kind), AskedChannel.idxc, LapIndex(ret.lap))
AskedReply == IF IsSome(ret.lap) THEN AskedLap ELSE AskedWhole

\* C6: a samples() request with lap = k, for every k in 0..lapcount-1, k = 0
\* included, uses the lap-scoped count and the lap-scoped fetch for lap k and
\* rounds the timestamps to 4 decimals without dividing by 1000; a request with
\* no lap uses the whole-session count and fetch and divides by 1000 first.
C6_LapSelectsSource ==
    AskedSamples
        => IF IsSome(ret.lap)
           THEN /\ ret.res.cntLap = Some(AskedLap.count)
                /\ ret.res.fetched \in {"none", "lap"}
                /\ ret.res.fetched = "lap" => ret.res.fetchLap = ret.lap
                /\ \A i \in 1..Len(ret.res.norm) :
                     ret.res.norm[i] = RoundHalfEven(ret.res.raw[i], 10)
           ELSE /\ IsNone(ret.res.cntLap)
                /\ ret.res.fetched \in {"none", "whole"}
                /\ \A i \in 1..Len(ret.res.norm) :
                     ret.res.norm[i] = RoundHalfEven(ret.res.raw[i], 10 * MsPerSecond)

\* The start of the requested lap as lap_info reports it, in ticks.
AskedLapStart == LapInfoList(file, Len(file.laps))[LapIndex(ret.lap) + 1][1]

\* C7: every x-value samples() returns is the absolute x-value (the normalized
\* time if xtime, else timetodistance of it) minus an offset: the requested lap's
\* start in the same coordinate when a lap (0 included) was requested with
\* xabsolute = false, and 0 otherwise; the y-values are the fetched values.
C7_RelativeToLapStart ==
    (AskedSamples /\ ret.res.status = "ok")
        => LET absx(i) == IF ret.xtime THEN ret.res.norm[i]
                          ELSE TableLookup(Table, ret.res.norm[i]).value
               offset == IF IsSome(ret.lap) /\ ~ret.xabsolute
                         THEN IF ret.xtime THEN AskedLapStart
                              ELSE TableLookup(Table, AskedLapStart).value
                         ELSE 0
           IN  /\ Len(ret.res.xs) = Len(ret.res.norm)
               /\ \A i \in 1..Len(ret.res.xs) : ret.res.xs[i] = absx(i) - offset
               /\ Len(ret.res.ys) = Len(ret.res.xs)
               /\ \A i \in 1..Len(ret.res.ys) :
                    ret.res.ys[i]
                        = (IF ret.res.fetched = "lap" THEN AskedLap ELSE AskedWhole).values[i]

\* C8: samples() fails and returns no series whenever the count for the requested
\* scope is not positive, and then never calls the fetch; it fails and returns no
\* series whenever the fetch for the requested scope reports a non-positive
\* result; a non-positive whole-session count alone does not fail a lap-scoped
\* request whose lap count is positive.
C8_FailsOnScopeReplies ==
    AskedSamples
        => /\ AskedReply.count <= 0
                => /\ ret.res.status # "ok"
                   /\ ret.res.xs = <<>> /\ ret.res.ys = <<>>
                   /\ ret.res.fetched = "none"
           /\ (AskedReply.count > 0 /\ AskedReply.ok <= 0)
                => /\ ret.res.status # "ok"
                   /\ ret.res.xs = <<>> /\ ret.res.ys = <<>>
           /\ (IsSome(ret.lap) /\ AskedLap.count > 0 /\ AskedWhole.count <= 0)
                => ret.res.status # "AssertionError: samples_count"

\* C9: the handle is released at most once and no library call is issued with it
\* after close: a second close, and any read after close, stops in the wrapper.
C9_NoUseAfterClose == closeCalls <= 1 /\ ~staleUse

\* C10: the table is built successfully at most once and every later access reads
\* that same table; its build asks for the GPS Speed samples in absolute time
\* coordinates and never calls timetodistance, also when a distance-coordinate
\* samples() of the GPS Speed channel itself is what triggers it.
C10_BuiltOnceNoSelfReference ==
    /\ [](builds <= 1 /\ ~selfRef /\ (IsSome(timedistance) <=> builds = 1))
    /\ [][IsSome(timedistance) => timedistance' = timedistance]_vars

\* C10's case: the table was built for a distance-coordinate samples() of the
\* GPS Speed channel, and a later samples() read it.
C10_Witness ==
    /\ bySpeed
    /\ builds = 1
    /\ AskedSamples
    /\ ret.name # SpeedName
    /\ ~ret.xtime
    /\ ret.res.status = "ok"

====
